---------------------------- MODULE Spec2Model ----------------------------
(***************************************************************************)
(* Model of dynamic_shell_server.py: the approval store                    *)
(* (APPROVED_COMMANDS and approved_commands.json), the audit log, and the  *)
(* three entry points execute_command, revoke_command_approval and         *)
(* list_approved_commands.                                                 *)
(*                                                                         *)
(* The handlers are coroutines without any await: input() and              *)
(* subprocess.run() block the event loop, so one handler runs at a time.   *)
(* pc is the position of the handler that is running:                      *)
(*   idle    the server waits for the next request                         *)
(*   input   execute_command is blocked in input() (line 95)               *)
(*   run     execute_command is about to call subprocess.run (line 122)    *)
(*   wait    the child process runs, subprocess.run waits for it           *)
(*   done    the handler has returned; ret is its return value, call and   *)
(*           obs still tell what it was given and what it did              *)
(*                                                                         *)
(* Strings the code takes apart (commands, arguments, operator input,      *)
(* child output) are sequences of one-character strings.                   *)
(***************************************************************************)
EXTENDS Integers, Sequences, FiniteSets, TLC

VARIABLES
    APPROVED_COMMANDS,  \* the in-memory store: command_key -> datetime
    approvedFile,       \* content of APPROVED_COMMANDS_FILE
    auditLog,           \* content of AUDIT_LOG_FILE: a sequence of lines
    pc,                 \* position of the running handler
    call,               \* the running (or last) handler's arguments and locals
    ret,                \* the last handler's return value
    obs,                \* what the running (or last) handler did: history only
    granted,            \* the (command, args) pairs answered 2 in this process
                        \* and not revoked since: history only
    tasks,              \* the handlers the host has dispatched concurrently
    running,            \* the task that holds the event loop, or 0
    writers             \* the tasks that have the store file open for writing

\* The state of the concurrent dispatch
host == <<tasks, running, writers>>

vars == <<APPROVED_COMMANDS, approvedFile, auditLog, pc, call, ret, obs,
          granted, host>>

----------------------------------------------------------------------------
(* Bounds *)

MaxLog == 1     \* the process can append MaxLog lines to the audit file:
                \* further appends fail

MaxTasks == 2   \* handlers the host dispatches concurrently

(* Program constants *)

TIMEOUT == 300          \* subprocess.run(..., timeout=300)
SummaryLimit == 100     \* result[:100] + "..." if len(result) > 100

----------------------------------------------------------------------------
(* Strings *)

SP == " "

RECURSIVE Join(_)
\* ' '.join(args)
Join(args) ==
    IF args = <<>> THEN <<>>
    ELSE IF Len(args) = 1 THEN args[1]
    ELSE args[1] \o <<SP>> \o Join(Tail(args))

RECURSIVE LStrip(_)
LStrip(s) ==
    IF s # <<>> /\ Head(s) = SP THEN LStrip(Tail(s)) ELSE s

RECURSIVE RStrip(_)
RStrip(s) ==
    IF s # <<>> /\ s[Len(s)] = SP THEN RStrip(SubSeq(s, 1, Len(s) - 1)) ELSE s

\* str.strip(): leading and trailing whitespace removed
Strip(s) == RStrip(LStrip(s))

\* command_key = f"{command} {' '.join(args)}".strip()
CommandKey(command, args) == Strip(command \o <<SP>> \o Join(args))

----------------------------------------------------------------------------
(* Datetimes and their ISO-8601 text *)

\* The code only stores, formats and parses datetimes.  PastTimes are the
\* approval times an earlier process may have left in the store file,
\* Datetimes the values datetime.now() returns while this process runs.
PastTimes == { [sec |-> 0, usec |-> 0] }
Datetimes == { [sec |-> 1, usec |-> 500000] }

\* datetime.isoformat(): the microseconds are left out when they are zero
\* A variant of isoformat that drops the microseconds
isoformat_Seconds(d) == << d.sec >>

isoformat(d) == IF d.usec = 0 THEN <<d.sec>> ELSE <<d.sec, d.usec>>

IsIso(s) ==
    /\ Len(s) \in {1, 2}
    /\ s[1] \in Nat
    /\ Len(s) = 2 => s[2] \in 1..999999

\* datetime.fromisoformat() of a well-formed text
fromisoformat(s) == [sec |-> s[1], usec |-> IF Len(s) = 2 THEN s[2] ELSE 0]


----------------------------------------------------------------------------
(* Inputs *)

\* (command, args) pairs a caller passes to execute_command.  The first two
\* have the same arguments in different orders, the third has a space in
\* the command, the fourth is the empty command string.
Requests ==
    { [command |-> <<"e">>, args |-> << <<"h">>, <<"h", SP, "h">> >>],
      [command |-> <<"e">>, args |-> << <<"h", SP, "h">>, <<"h">> >>],
      [command |-> <<"e", SP, "h">>, args |-> << <<"h">>, <<"h">> >>],
      [command |-> << >>,   args |-> << >>] }

Sigs == { CommandKey(r.command, r.args) : r \in Requests }

\* strings a caller passes to revoke_command_approval
RevokeInputs == Sigs \cup { <<"e">> }

\* lines the operator types
InputLines ==
    { <<"1">>, <<"2">>, <<"3">>, <<SP, "2">>, <<"3", SP>>,
      <<"4">>, << >>, <<"1", "2">> }

----------------------------------------------------------------------------
(* The approved-commands file *)

EmptyMap == [k \in {} |-> << >>]

Missing == [kind |-> "missing", data |-> EmptyMap]
Garbage == [kind |-> "garbage", data |-> EmptyMap]

\* json.dump({cmd: date.isoformat() for cmd, date in commands.items()}, f)
JsonOf(commands) ==
    [kind |-> "json",
     data |-> [k \in DOMAIN commands |-> isoformat(commands[k])]]

\* load_approved_commands(): any failure to read or parse gives {}
load_approved_commands(f) ==
    IF f.kind = "json" /\ \A k \in DOMAIN f.data : IsIso(f.data[k])
    THEN [k \in DOMAIN f.data |-> fromisoformat(f.data[k])]
    ELSE EmptyMap

\* save_approved_commands(commands): the possible outcomes.  open(..., 'w')
\* may fail (file untouched), or the write may fail after the file was
\* truncated (file left empty or partial); the exception is swallowed.
SaveOutcomes(f, commands) ==
    { [file |-> JsonOf(commands), ok |-> TRUE],
      [file |-> f,                ok |-> FALSE],
      [file |-> Garbage,          ok |-> FALSE] }

\* Files the process may find at start.
BadIso == << -1 >>
IsoTexts == { isoformat(d) : d \in PastTimes }
StoredMaps == UNION { [D -> IsoTexts] : D \in SUBSET Sigs }
InitialFiles ==
    { Missing, Garbage }
        \cup { [kind |-> "json", data |-> m] : m \in StoredMaps }
        \cup { [kind |-> "json", data |-> [k \in {<< >>} |-> BadIso]] }

----------------------------------------------------------------------------
(* Texts, envelopes, audit entries *)

\* A text built by the code: a literal followed by a variable part.
Text(msg, detail) == [msg |-> msg, detail |-> detail]
NoText == Text("", << >>)
TextLen(t) == Len(t.msg) + Len(t.detail)

\* {"content": [{"type": "text", "text": text}], "isError": isError}
Envelope(text, isError) ==
    [content |-> << [type |-> "text", text |-> text] >>, isError |-> isError]

NoRet == [content |-> << >>, isError |-> FALSE]

\* What the host gets when an exception leaves a handler
Raised == Envelope(Text("raised", << >>), TRUE)

InterruptedText == Text("Command approval interrupted", << >>)
DeniedText      == Text("Command execution denied by user", << >>)
TimeoutText     == Text("Error: Command timed out after 5 minutes", << >>)

\* result[:100] + "..." if len(result) > 100 else result
\* (every literal of the code is shorter than 100 characters)
Summary(result) ==
    IF TextLen(result) > SummaryLimit
    THEN [msg |-> result.msg,
          detail |-> SubSeq(result.detail, 1, SummaryLimit - Len(result.msg)),
          ellipsis |-> TRUE]
    ELSE [msg |-> result.msg, detail |-> result.detail, ellipsis |-> FALSE]

\* log_entry of log_command_execution
LogEntry(now, command, args, result, success) ==
    [timestamp |-> isoformat(now),
     command |-> command,
     arguments |-> args,
     success |-> success,
     result_summary |-> Summary(result)]

\* A line an earlier process left in the audit file
OldEntry ==
    LogEntry(CHOOSE d \in PastTimes : TRUE, <<"l", "s">>, << >>,
             Text("", <<"h">>), TRUE)

\* The lines of the audit file this process appended
NewLines(log) == SelectSeq(log, LAMBDA e : e # OldEntry)

----------------------------------------------------------------------------
(* Pieces of execute_command and revoke_command_approval *)

\* if command_key not in APPROVED_COMMANDS  (line 76)
\* A variant of the test of line 76 that reads the file again
NeedsApproval_Reload(key, store) ==
    key \notin DOMAIN load_approved_commands(approvedFile)

\* A variant of the test of line 76 that asks for every call
NeedsApproval_Always(key, store) == TRUE

NeedsApproval(key, store) == key \notin DOMAIN store

\* if response in ['1', '2', '3']  (line 96)
\* A variant of line 96 that takes any single character as a choice
ValidResponse_Loose(response) == Len(response) = 1

ValidResponse(response) == response \in { <<"1">>, <<"2">>, <<"3">> }

\* APPROVED_COMMANDS[command_key] = now  (line 117)
Remember(store, key, now) ==
    [k \in DOMAIN store \cup {key} |-> IF k = key THEN now ELSE store[k]]

\* if command in APPROVED_COMMANDS  (line 206)
\* A variant of the test of line 206 that finds every command
InStore_Any(command, store) == TRUE

InStore(command, store) == command \in DOMAIN store

\* del APPROVED_COMMANDS[command]  (line 207)
\* A variant of line 207 that clears the store
Forget_All(store, key) == EmptyMap

Forget(store, key) == [k \in DOMAIN store \ {key} |-> store[k]]

\* The store after a valid response: only '2' changes it  (lines 108-118)
\* A variant of lines 116-117 that remembers after the answer 1 as well
StoreAfter_Sticky(response, store, key, now) ==
    IF response \in { <<"1">>, <<"2">> } THEN Remember(store, key, now)
    ELSE store

StoreAfter(response, store, key, now) ==
    IF response = <<"2">> THEN Remember(store, key, now) ELSE store

\* Whether save_approved_commands is called after a valid response
\* A variant of lines 116-118 without the call of save_approved_commands
SavesAfter_Never(response) == FALSE

SavesAfter(response) == response = <<"2">>

\* Whether the handler goes on to subprocess.run after a valid response
\* A variant of lines 108-115 in which the answer 3 does not return
RunsAfter_Open(response) == TRUE

RunsAfter(response) == response # <<"3">>

\* Whether a failed write lets an exception out of save_approved_commands:
\* the try of lines 37-41 catches every Exception
\* A variant of save_approved_commands without the except clause
SaveRaises_OnFailure(ok) == ~ok

SaveRaises(ok) == FALSE

\* Whether a failed append lets an exception out of log_command_execution:
\* the try of lines 57-62 catches every Exception
LogRaises(ok) == FALSE

\* subprocess.run cannot start a child for the empty command string
CanStart(command) == command # << >>

\* What Popen raises when the child cannot be started: an OSError
\* (FileNotFoundError, PermissionError), or a SubprocessError when the
\* child's report of its failed exec cannot be read.
StartFailures == { "OSError", "SubprocessError" }

\* The handler's text for an exception raised by subprocess.run
\* (lines 158-177; TimeoutExpired is handled in ChildTimeout)
ErrorText(exc) ==
    IF exc = "SubprocessError"
    THEN Text("Execution Error: ", << exc >>)
    ELSE Text("Unexpected Error: ", << exc >>)

\* What the child may print
Stdouts == { << >>, <<"h">> }
Stderrs == { << >>, <<"x">> }

\* output of lines 130-135
OutputOf(returncode, stdout, stderr) ==
    IF returncode = 0
    THEN IF stdout # << >> THEN Text("", stdout)
         ELSE Text("Command completed successfully", << >>)
    ELSE IF stderr # << >> THEN Text("Error: ", stderr)
         ELSE Text("Command failed with no error message", << >>)

\* success of lines 130-135
SuccessOf(returncode) == returncode = 0

\* "isError": not success  (line 145)
IsErrorOf(success) == ~success

\* Stands for the running time of a child that never exits by itself
Forever == TIMEOUT + 2

\* How long a child may run, in seconds
Durations == { 0, TIMEOUT, TIMEOUT + 1, Forever }

\* The child exits by itself after duration seconds
Exits(duration) == duration # Forever

\* A variant of the timeout of line 126 that is one second late
TimesOut_Late(duration) == duration > TIMEOUT + 1

\* A variant of lines 122-128 without timeout=300
TimesOut_Never(duration) == FALSE

\* subprocess.run raises TimeoutExpired when the child outlives the timeout
TimesOut(duration) == duration > TIMEOUT

----------------------------------------------------------------------------
(* State *)

NoCall ==
    [op |-> "none", command |-> << >>, args |-> << >>,
     command_key |-> << >>, response |-> << >>, duration |-> 0,
     output |-> NoText, success |-> FALSE]

\* obs at the start of a handler
FreshObs ==
    [approved0 |-> FALSE,   \* the key was in the store when the handler began
     prompted |-> FALSE,    \* ctx.info(approval_message) was called
     reads    |-> FALSE,    \* input() was called
     readFailed |-> FALSE,  \* input() raised
     spawned  |-> FALSE,    \* a child process was started
     child    |-> "none",   \* none | running | exit0 | exitN | killed
     saved    |-> "none",   \* save_approved_commands: none | ok | failed
     appended |-> "none",   \* the audit append: none | ok | failed
     storeChanged |-> FALSE,    \* the handler changed APPROVED_COMMANDS
     fileChanged  |-> FALSE,    \* the handler changed the store file
     logLen0  |-> Len(auditLog)]    \* lines of the audit log when it began

\* The tasks the host may have in flight at once
TaskIds == 1..MaxTasks

\* A task the host has not dispatched
NoTask ==
    [pc |-> "none", op |-> "none", key |-> << >>,
     clean |-> TRUE,    \* no other task had the file open while this one had
     wrote |-> FALSE]   \* the task has written the store file

Init ==
    /\ approvedFile \in InitialFiles
    /\ APPROVED_COMMANDS = load_approved_commands(approvedFile)
    /\ auditLog \in { << >>, << OldEntry >> }
    /\ pc = "idle"
    /\ call = NoCall
    /\ ret = NoRet
    /\ obs = FreshObs
    /\ granted = {}
    /\ tasks = [t \in TaskIds |-> NoTask]
    /\ running = 0
    /\ writers = {}

Ready == pc = "idle"

----------------------------------------------------------------------------
(* execute_command *)

\* Lines 65-90: the handler starts, computes command_key, and either goes
\* straight to subprocess.run or issues the prompt and waits for input.
ExecuteCommand(r, ctx) ==
    LET key == CommandKey(r.command, r.args)
        asks == NeedsApproval(key, APPROVED_COMMANDS)
    IN  /\ Ready
        /\ call' = [NoCall EXCEPT !.op = "execute", !.command = r.command,
                                  !.args = r.args,
                                  !.command_key = key]
        /\ obs' = [FreshObs EXCEPT
                     !.approved0 = key \in DOMAIN APPROVED_COMMANDS,
                     !.prompted = asks /\ ctx]
        /\ pc' = IF asks THEN "input" ELSE "run"
        /\ ret' = NoRet
        /\ UNCHANGED <<host, granted, APPROVED_COMMANDS, approvedFile, auditLog>>

\* A variant of lines 99-106 that leaves the loop as if input had been allowed
InputInterrupted_Falls ==
    /\ pc = "input"
    /\ obs' = [obs EXCEPT !.reads = TRUE, !.readFailed = TRUE]
    /\ pc' = "run"
    /\ UNCHANGED <<host, granted, APPROVED_COMMANDS, approvedFile, auditLog, call, ret>>

\* Lines 99-106: input() (or the print to stderr) raises
InputInterrupted ==
    /\ pc = "input"
    /\ obs' = [obs EXCEPT !.reads = TRUE, !.readFailed = TRUE]
    /\ ret' = Envelope(InterruptedText, TRUE)
    /\ pc' = "done"
    /\ UNCHANGED <<host, granted, APPROVED_COMMANDS, approvedFile, auditLog, call>>

\* Lines 95-98: a line that is none of 1, 2, 3: the loop reads again
\* (response holds the rejected line until the next read replaces it; the
\* model keeps only the response that ends the loop)
InputInvalid(line) ==
    /\ pc = "input"
    /\ ~ValidResponse(Strip(line))
    /\ obs' = [obs EXCEPT !.reads = TRUE]
    /\ UNCHANGED <<host, granted, APPROVED_COMMANDS, approvedFile, auditLog, pc, call, ret>>

\* Lines 95-118: a valid choice ends the loop; 3 returns the denial, 2
\* inserts the key and saves the store, 1 and 2 go on to subprocess.run
InputValid(line, now, saveOk) ==
    LET response == Strip(line)
        key == call.command_key
        store == StoreAfter(response, APPROVED_COMMANDS, key, now)
        saves == SavesAfter(response)
        outcomes == IF saves
                    THEN { o \in SaveOutcomes(approvedFile, store) :
                             o.ok = saveOk }
                    ELSE { [file |-> approvedFile, ok |-> TRUE] }
    IN  /\ pc = "input"
        /\ ValidResponse(response)
        /\ saveOk \/ saves
        /\ call' = [call EXCEPT !.response = response]
        /\ APPROVED_COMMANDS' = store
        /\ \E out \in outcomes :
             /\ approvedFile' = out.file
             /\ obs' = [obs EXCEPT
                          !.reads = TRUE,
                          !.saved = IF ~saves THEN "none"
                                    ELSE IF out.ok THEN "ok" ELSE "failed",
                          !.storeChanged = store # APPROVED_COMMANDS,
                          !.fileChanged = out.file # approvedFile]
             /\ IF saves /\ SaveRaises(out.ok)
                THEN pc' = "done" /\ ret' = Raised
                ELSE IF RunsAfter(response)
                THEN pc' = "run" /\ ret' = ret
                ELSE pc' = "done" /\ ret' = Envelope(DeniedText, TRUE)
        /\ granted' = IF response = <<"2">>
                      THEN granted \cup { [command |-> call.command,
                                           args |-> call.args] }
                      ELSE granted
        /\ UNCHANGED <<host, auditLog>>

\* A variant of line 58 that opens the audit file with mode 'w'
Logged_Truncating(log, now, ok, command, args, result, success) ==
    IF ok THEN << LogEntry(now, command, args, result, success) >>
    ELSE log

\* log_command_execution (lines 46-62): the entry is appended, or the
\* failure is swallowed.  The audit log after the call.
Logged(log, now, ok, command, args, result, success) ==
    IF ok THEN Append(log, LogEntry(now, command, args, result, success))
    ELSE log

\* Lines 136-146, 149-157, 159-167, 169-177: the output and success flag are
\* set, log_command_execution is called, and the envelope is returned
Finish(output, success, child, now, ok) ==
    /\ ok => Len(NewLines(auditLog)) < MaxLog
    /\ call' = [call EXCEPT !.output = output, !.success = success,
                            !.duration = 0]
    /\ auditLog' = Logged(auditLog, now, ok, call.command, call.args,
                          output, success)
    /\ obs' = [obs EXCEPT !.child = child,
                          !.appended = IF ok THEN "ok" ELSE "failed"]
    /\ ret' = IF LogRaises(ok) THEN Raised
              ELSE Envelope(output, IsErrorOf(success))
    /\ pc' = "done"
    /\ UNCHANGED <<host, granted, APPROVED_COMMANDS, approvedFile>>

\* Lines 122-128, 158-177: subprocess.run fails to start the child
StartFails(exc, now, ok) ==
    /\ pc = "run"
    /\ Finish(ErrorText(exc), FALSE, "none", now, ok)

\* Lines 122-128: subprocess.run starts the child and waits for it
Spawn(duration) ==
    /\ pc = "run"
    /\ CanStart(call.command)
    /\ call' = [call EXCEPT !.duration = duration]
    /\ obs' = [obs EXCEPT !.spawned = TRUE, !.child = "running"]
    /\ pc' = "wait"
    /\ UNCHANGED <<host, granted, APPROVED_COMMANDS, approvedFile, auditLog, ret>>

\* Lines 130-146: the child exits within the timeout and its output decodes
ChildExit(returncode, stdout, stderr, now, ok) ==
    /\ pc = "wait"
    /\ Exits(call.duration)
    /\ ~TimesOut(call.duration)
    /\ Finish(OutputOf(returncode, stdout, stderr), SuccessOf(returncode),
              IF returncode = 0 THEN "exit0" ELSE "exitN", now, ok)

\* Lines 122-128, 168-177: the child exits within the timeout, but text=True
\* cannot decode its output: subprocess.run raises UnicodeDecodeError
ChildExitUndecodable(returncode, now, ok) ==
    /\ pc = "wait"
    /\ Exits(call.duration)
    /\ ~TimesOut(call.duration)
    /\ Finish(ErrorText("UnicodeDecodeError"), FALSE,
              IF returncode = 0 THEN "exit0" ELSE "exitN", now, ok)

\* Lines 148-157: the child outlives the timeout; subprocess.run kills it,
\* waits for it and raises TimeoutExpired
ChildTimeout(now, ok) ==
    /\ pc = "wait"
    /\ TimesOut(call.duration)
    /\ Finish(TimeoutText, FALSE, "killed", now, ok)

----------------------------------------------------------------------------
(* revoke_command_approval and list_approved_commands *)

RevokedText(command)  == Text("Approval revoked for: ", command)
NotFoundText(command) == Text("Command not found in approved list: ", command)

\* Lines 202-223
RevokeCommandApproval(command, saveOk) ==
    LET found == InStore(command, APPROVED_COMMANDS)
        store == IF found THEN Forget(APPROVED_COMMANDS, command)
                 ELSE APPROVED_COMMANDS
        outcomes == IF found
                    THEN { o \in SaveOutcomes(approvedFile, store) :
                             o.ok = saveOk }
                    ELSE { [file |-> approvedFile, ok |-> TRUE] }
    IN  /\ Ready
        /\ saveOk \/ found
        /\ call' = [NoCall EXCEPT !.op = "revoke", !.command = command]
        /\ APPROVED_COMMANDS' = store
        /\ \E out \in outcomes :
             /\ approvedFile' = out.file
             /\ obs' = [FreshObs EXCEPT
                          !.approved0 = command \in DOMAIN APPROVED_COMMANDS,
                          !.saved = IF ~found THEN "none"
                                    ELSE IF out.ok THEN "ok" ELSE "failed",
                          !.storeChanged = store # APPROVED_COMMANDS,
                          !.fileChanged = out.file # approvedFile]
             /\ ret' = IF found /\ SaveRaises(out.ok) THEN Raised
                       ELSE IF found
                       THEN Envelope(RevokedText(command), FALSE)
                       ELSE Envelope(NotFoundText(command), TRUE)
        /\ pc' = "done"
        /\ granted' = { g \in granted :
                          CommandKey(g.command, g.args) # command }
        /\ UNCHANGED <<host, auditLog>>

\* The text of lines 190-197, as the set of its (cmd, date) blocks
Listing(store) == { <<k, isoformat(store[k])>> : k \in DOMAIN store }

\* Lines 180-199: the returned dict has no isError key
ListApprovedCommands ==
    /\ Ready
    /\ call' = [NoCall EXCEPT !.op = "list"]
    /\ obs' = FreshObs
    /\ ret' = IF APPROVED_COMMANDS = EmptyMap
              THEN [content |-> << [type |-> "text",
                       text |-> Text("No commands have been approved yet.",
                                     << >>)] >>]
              ELSE [content |-> << [type |-> "text",
                       text |-> [msg |-> "",
                                 blocks |-> Listing(APPROVED_COMMANDS)]] >>]
    /\ pc' = "done"
    /\ UNCHANGED <<host, granted, APPROVED_COMMANDS, approvedFile, auditLog>>

\* mcp.run() (line 226): the host has the return value and the server
\* waits for the next request
NextRequest ==
    /\ pc = "done"
    /\ pc' = "idle"
    /\ call' = NoCall
    /\ ret' = NoRet
    /\ obs' = FreshObs
    /\ UNCHANGED <<host, granted, APPROVED_COMMANDS, approvedFile, auditLog>>

----------------------------------------------------------------------------

Next ==
    \/ \E r \in Requests, ctx \in BOOLEAN : ExecuteCommand(r, ctx)
    \/ InputInterrupted
    \/ \E line \in InputLines : InputInvalid(line)
    \/ \E line \in InputLines, now \in Datetimes, saveOk \in BOOLEAN :
          InputValid(line, now, saveOk)
    \/ \E exc \in StartFailures, now \in Datetimes, ok \in BOOLEAN :
          StartFails(exc, now, ok)
    \/ \E d \in Durations : Spawn(d)
    \/ \E rc \in {0, 1}, out \in Stdouts, err \in Stderrs,
          now \in Datetimes, ok \in BOOLEAN : ChildExit(rc, out, err, now, ok)
    \/ \E rc \in {0, 1}, now \in Datetimes, ok \in BOOLEAN :
          ChildExitUndecodable(rc, now, ok)
    \/ \E now \in Datetimes, ok \in BOOLEAN : ChildTimeout(now, ok)
    \/ \E c \in RevokeInputs, saveOk \in BOOLEAN : RevokeCommandApproval(c, saveOk)
    \/ ListApprovedCommands
    \/ NextRequest

Spec == Init /\ [][Next]_vars

----------------------------------------------------------------------------
(* Handlers dispatched concurrently: execute_command and
   revoke_command_approval are coroutines on the host's event loop.  A task
   is at start (dispatched, not yet run), input (line 95), save (before line
   38), dump (the file is open, line 39), run (line 122) or done. *)

\* The rest of the state
sequential == <<auditLog, pc, call, ret, obs, granted>>

\* A variant of save_approved_commands that awaits the write
Awaits_Dump(p) == p = "dump"

\* Whether a handler gives up the event loop at position p: lines 65-177 and
\* 202-223 hold no await
Awaits(p) == FALSE

\* The event loop is free for task t, or task t holds it
Holder(t) == running \in {0, t}

\* The event loop's holder after task t has got to position p
After(t, p) == IF Awaits(p) \/ p = "done" THEN 0 ELSE t

\* The host dispatches a call while others are in flight
Dispatch(t, op, key) ==
    /\ tasks[t].pc = "none"
    /\ tasks' = [tasks EXCEPT ![t] = [NoTask EXCEPT !.pc = "start",
                                                    !.op = op, !.key = key]]
    /\ UNCHANGED <<running, writers, APPROVED_COMMANDS, approvedFile,
                   sequential>>

\* Line 76
TaskDecide(t) ==
    LET p == IF NeedsApproval(tasks[t].key, APPROVED_COMMANDS)
             THEN "input" ELSE "run"
    IN  /\ Holder(t)
        /\ tasks[t].pc = "start" /\ tasks[t].op = "execute"
        /\ tasks' = [tasks EXCEPT ![t].pc = p]
        /\ running' = After(t, p)
        /\ UNCHANGED <<writers, APPROVED_COMMANDS, approvedFile, sequential>>

\* Lines 93-117: the operator's choice
TaskAnswer(t, response, now) ==
    LET p == IF SavesAfter(response) THEN "save"
             ELSE IF RunsAfter(response) THEN "run" ELSE "done"
    IN  /\ Holder(t)
        /\ tasks[t].pc = "input"
        /\ ValidResponse(response)
        /\ APPROVED_COMMANDS' =
              StoreAfter(response, APPROVED_COMMANDS, tasks[t].key, now)
        /\ tasks' = [tasks EXCEPT ![t].pc = p]
        /\ running' = After(t, p)
        /\ UNCHANGED <<writers, approvedFile, sequential>>

\* Lines 206-207, 217-223
TaskRevoke(t) ==
    LET found == InStore(tasks[t].key, APPROVED_COMMANDS)
        p == IF found THEN "save" ELSE "done"
    IN  /\ Holder(t)
        /\ tasks[t].pc = "start" /\ tasks[t].op = "revoke"
        /\ APPROVED_COMMANDS' =
              IF found THEN Forget(APPROVED_COMMANDS, tasks[t].key)
              ELSE APPROVED_COMMANDS
        /\ tasks' = [tasks EXCEPT ![t].pc = p]
        /\ running' = After(t, p)
        /\ UNCHANGED <<writers, approvedFile, sequential>>

\* Line 38: open(APPROVED_COMMANDS_FILE, 'w') truncates the file
TaskOpen(t) ==
    /\ Holder(t)
    /\ tasks[t].pc = "save"
    /\ approvedFile' = Garbage
    /\ writers' = writers \cup {t}
    /\ tasks' = [u \in TaskIds |->
                   IF u = t
                   THEN [tasks[t] EXCEPT !.pc = "dump",
                                         !.clean = writers = {}]
                   ELSE IF u \in writers
                   THEN [tasks[u] EXCEPT !.clean = FALSE]
                   ELSE tasks[u]]
    /\ running' = After(t, "dump")
    /\ UNCHANGED <<APPROVED_COMMANDS, sequential>>

\* Line 39 and the end of the with block: the store as it is now is
\* written and the file is closed; writes of two tasks through two open
\* files leave a mixture
TaskDump(t) ==
    LET p == IF tasks[t].op = "execute" THEN "run" ELSE "done"
    IN  /\ Holder(t)
        /\ tasks[t].pc = "dump"
        /\ approvedFile' = IF tasks[t].clean THEN JsonOf(APPROVED_COMMANDS)
                           ELSE Garbage
        /\ writers' = writers \ {t}
        /\ tasks' = [tasks EXCEPT ![t].pc = p, ![t].wrote = TRUE]
        /\ running' = After(t, p)
        /\ UNCHANGED <<APPROVED_COMMANDS, sequential>>

\* Lines 120-177: subprocess.run blocks the event loop until the child is
\* done, then the handler returns
TaskRun(t) ==
    /\ Holder(t)
    /\ tasks[t].pc = "run"
    /\ tasks' = [tasks EXCEPT ![t].pc = "done"]
    /\ running' = After(t, "done")
    /\ UNCHANGED <<writers, APPROVED_COMMANDS, approvedFile, sequential>>

NextConcurrent ==
    \/ \E t \in TaskIds, r \in Requests :
          Dispatch(t, "execute", CommandKey(r.command, r.args))
    \/ \E t \in TaskIds, c \in RevokeInputs : Dispatch(t, "revoke", c)
    \/ \E t \in TaskIds : TaskDecide(t)
    \/ \E t \in TaskIds, response \in { <<"1">>, <<"2">>, <<"3">> },
          now \in Datetimes : TaskAnswer(t, response, now)
    \/ \E t \in TaskIds : TaskRevoke(t)
    \/ \E t \in TaskIds : TaskOpen(t)
    \/ \E t \in TaskIds : TaskDump(t)
    \/ \E t \in TaskIds : TaskRun(t)

SpecConcurrent == Init /\ [][NextConcurrent]_vars

----------------------------------------------------------------------------
(* Progress *)

\* subprocess.run returns or raises: the child cannot be started, or it is
\* started and then exits or is killed at the timeout; the rest of the
\* handler is straight-line code
ExecutorStep ==
    \/ \E exc \in StartFailures, now \in Datetimes, ok \in BOOLEAN :
          StartFails(exc, now, ok)
    \/ \E d \in Durations : Spawn(d)
    \/ \E rc \in {0, 1}, out \in Stdouts, err \in Stderrs,
          now \in Datetimes, ok \in BOOLEAN : ChildExit(rc, out, err, now, ok)
    \/ \E rc \in {0, 1}, now \in Datetimes, ok \in BOOLEAN :
          ChildExitUndecodable(rc, now, ok)
    \/ \E now \in Datetimes, ok \in BOOLEAN : ChildTimeout(now, ok)

\* The operator gives a valid answer, or input() raises
AnswerStep ==
    \/ InputInterrupted
    \/ \E line \in InputLines, now \in Datetimes, saveOk \in BOOLEAN :
          InputValid(line, now, saveOk)

\* A process started with no store file and no audit file
InitLive == Init /\ approvedFile = Missing /\ auditLog = << >>

SpecLive ==
    InitLive /\ [][Next]_vars /\ WF_vars(ExecutorStep) /\ WF_vars(AnswerStep)

----------------------------------------------------------------------------
(* The store file edited from outside the process *)

\* What another program may leave in APPROVED_COMMANDS_FILE: no file, or a
\* file that approves every key
ExternalFiles ==
    { Missing,
      [kind |-> "json",
       data |-> [k \in Sigs |-> isoformat(CHOOSE d \in PastTimes : TRUE)]] }

ExternalEdit(f) ==
    /\ f # approvedFile
    /\ approvedFile' = f
    /\ UNCHANGED <<host, granted, APPROVED_COMMANDS, auditLog, pc, call, ret,
                   obs>>

NextEdit ==
    \/ Next
    \/ \E f \in ExternalFiles : ExternalEdit(f)

SpecEdit == Init /\ [][NextEdit]_vars

----------------------------------------------------------------------------
(* Properties *)

Executing == call.op = "execute"
Revoking  == call.op = "revoke"
Returned  == pc = "done"
Key       == call.command_key
Allowed   == { <<"1">>, <<"2">> }

\* The handler is at or past the call of subprocess.run
AtExecutor == pc \in {"run", "wait"} \/ (Returned /\ obs.appended # "none")

\* The file holds exactly the entries of the store
Holds(f, store) ==
    /\ f.kind = "json"
    /\ DOMAIN f.data = DOMAIN store
    /\ \A k \in DOMAIN store :
         IsIso(f.data[k]) /\ fromisoformat(f.data[k]) = store[k]

\* What a start of the process would load is what the process holds
Consistent == load_approved_commands(approvedFile) = APPROVED_COMMANDS

\* store2 is store1 without the entry of s, every other entry as it was
Without(store1, s, store2) ==
    /\ DOMAIN store2 = DOMAIN store1 \ {s}
    /\ \A k \in DOMAIN store2 : store2[k] = store1[k]

\* store2 is store1 with an entry for s, every other entry as it was
With(store1, s, store2) ==
    /\ DOMAIN store2 = DOMAIN store1 \cup {s}
    /\ \A k \in DOMAIN store1 \ {s} : store2[k] = store1[k]

IsPrefix(s, t) == Len(s) <= Len(t) /\ SubSeq(t, 1, Len(s)) = s

\* The step is the start of an execute_command call
StartsExecute == pc = "idle" /\ call'.op = "execute"

\* The step is a revoke_command_approval call
StepRevoke == pc = "idle" /\ call'.op = "revoke"

\* The step is the operator's answer 2
StepRemember == pc = "input" /\ call'.response = <<"2">>

\* C1: in an execute_command call the handler gets to subprocess.run, and a
\* child exists, only if the key was in the store when the call began or the
\* operator answered 1 or 2 in this call; after the answer 3 the call has
\* returned the denial text with isError true, no child was spawned and the
\* store is as it was.
C1_ExecutionGate ==
    /\ (Executing /\ (pc \in {"run", "wait"} \/ obs.spawned))
          => (obs.approved0 \/ call.response \in Allowed)
    /\ (Executing /\ call.response = <<"3">>)
          => /\ Returned
             /\ ret = Envelope(DeniedText, TRUE)
             /\ ~obs.spawned /\ obs.child = "none"
             /\ ~obs.storeChanged

C1_Denied ==
    /\ Executing /\ Returned /\ ~obs.approved0
    /\ call.response = <<"3">>
    /\ APPROVED_COMMANDS # EmptyMap

\* C2: after the answer 2 the store holds the key and the same call goes on to
\* subprocess.run; a call whose key is in the store when it begins issues no
\* prompt, reads no input and goes to subprocess.run; and a key leaves the
\* store only by a revoke of that key.
C2_Inv ==
    /\ (Executing /\ call.response = <<"2">>)
          => (Key \in DOMAIN APPROVED_COMMANDS /\ AtExecutor)
    /\ (Executing /\ obs.approved0)
          => (~obs.reads /\ ~obs.prompted /\ AtExecutor)

C2_Step ==
    \A s \in DOMAIN APPROVED_COMMANDS :
        s \notin DOMAIN APPROVED_COMMANDS'
           => (StepRevoke /\ call'.command = s)

C2_RememberedApproval == []C2_Inv /\ [][C2_Step]_vars

\* A call that ran without a prompt on an approval given in this process
C2_RanUnprompted ==
    /\ Executing /\ Returned /\ obs.approved0 /\ ~obs.reads
    /\ obs.child = "exit0"
    /\ APPROVED_COMMANDS[Key] \in Datetimes

\* C3: the store changes only by the answer 2, which inserts exactly the key
\* of the call that asked, and by a revoke, which removes exactly its
\* argument; every other step (answers 1 and 3, an interrupted or invalid
\* read, every execution outcome, list) leaves it unchanged, and a call whose
\* key is not in the store when it begins waits for the operator.
C3_Step ==
    /\ APPROVED_COMMANDS' # APPROVED_COMMANDS
          => \/ /\ StepRemember
                /\ Key \notin DOMAIN APPROVED_COMMANDS
                /\ With(APPROVED_COMMANDS, Key, APPROVED_COMMANDS')
                /\ APPROVED_COMMANDS'[Key] \in Datetimes
             \/ /\ StepRevoke
                /\ Without(APPROVED_COMMANDS, call'.command,
                           APPROVED_COMMANDS')
    /\ (StartsExecute /\ call'.command_key \notin DOMAIN APPROVED_COMMANDS)
          => (pc' = "input" /\ ~obs'.approved0)

C3_CreatedOnlyByRemember == [][C3_Step]_vars

\* A call allowed once has run and its key is not in the store
C3_AllowedOnce ==
    /\ Executing /\ Returned /\ call.response = <<"1">>
    /\ obs.child = "exit0"
    /\ Key \notin DOMAIN APPROVED_COMMANDS

\* C4: when input() raises while the call waits for the answer, the call
\* returns the "approval interrupted" text with isError true, no child is
\* spawned, and the store and the store file are as they were.
C4_Interrupted ==
    obs.readFailed
       => /\ Executing /\ Returned
          /\ ret = Envelope(InterruptedText, TRUE)
          /\ ~obs.spawned /\ obs.child = "none"
          /\ ~obs.storeChanged /\ ~obs.fileChanged /\ obs.saved = "none"

C4_ReadFailed ==
    /\ obs.readFailed /\ Returned
    /\ Key \notin DOMAIN APPROVED_COMMANDS
    /\ approvedFile.kind = "json"

\* C5: revoke_command_approval of a command that is not in the store returns
\* the "not found" text with isError true, and neither the store nor the
\* store file changes: save_approved_commands is not called.
C5_RevokeAbsent ==
    (Revoking /\ ~obs.approved0)
       => /\ Returned
          /\ ret = Envelope(NotFoundText(call.command), TRUE)
          /\ ~obs.storeChanged /\ ~obs.fileChanged /\ obs.saved = "none"

C5_NotFound ==
    /\ Revoking /\ Returned /\ ~obs.approved0
    /\ APPROVED_COMMANDS # EmptyMap

\* C6: revoke_command_approval of a command s that is in the store removes
\* the entry of s and no other, calls save_approved_commands (which, when
\* the write succeeds, leaves the new store in the file) and returns the
\* confirmation with isError false; an execute_command call that begins
\* while its key is not in the store neither runs nor returns before input
\* is read.
C6_Step ==
    /\ (StepRevoke /\ call'.command \in DOMAIN APPROVED_COMMANDS)
          => /\ Without(APPROVED_COMMANDS, call'.command, APPROVED_COMMANDS')
             /\ obs'.saved \in {"ok", "failed"}
             /\ obs'.saved = "ok" => Holds(approvedFile', APPROVED_COMMANDS')
             /\ ret' = Envelope(RevokedText(call'.command), FALSE)
             /\ pc' = "done"
    /\ (Executing /\ ~obs.approved0 /\ ~obs.reads)
          => (pc = "input" /\ pc' \in {"input", "run", "done"}
              /\ (pc' # "input" => obs'.reads))

C6_RevokePresent == [][C6_Step]_vars

\* A revoke removed one entry and left another
C6_Revoked ==
    /\ Revoking /\ Returned /\ obs.approved0
    /\ obs.saved = "ok"
    /\ call.command \notin DOMAIN APPROVED_COMMANDS
    /\ APPROVED_COMMANDS # EmptyMap

\* C7: a step that changes the store calls save_approved_commands before the
\* handler goes on; from a successful save to the end of the call the file
\* holds exactly the entries of the store; and what the file would load
\* equals the store at the start and after every step in which no save
\* failed.
C7_Inv == obs.saved = "ok" => Holds(approvedFile, APPROVED_COMMANDS)

C7_Step ==
    /\ APPROVED_COMMANDS' # APPROVED_COMMANDS
          => (pc \in {"input", "idle"} /\ obs'.saved # "none")
    /\ (Consistent /\ ~(pc \in {"input", "idle"} /\ obs'.saved = "failed"))
          => Consistent'

C7_FileFollowsMemory == Consistent /\ []C7_Inv /\ [][C7_Step]_vars

\* A successful save replaced a file that was not readable
C7_Saved ==
    /\ Executing /\ pc = "run" /\ obs.saved = "ok" /\ obs.fileChanged
    /\ Cardinality(DOMAIN APPROVED_COMMANDS) = 2

\* C8: whichever way the write of the store file ends, the answer 2 leaves
\* the key in the store and takes the call to subprocess.run, and a revoke of
\* a stored command removes it and returns the confirmation; whichever way
\* the audit append ends, the call returns the envelope of its output and
\* success flag and leaves the store alone; and a call whose key is in the
\* store reads no input even when the file does not hold the store.
C8_Step ==
    \A outcome \in {"ok", "failed"} :
       /\ (StepRemember /\ obs'.saved = outcome)
             => /\ pc' = "run" /\ ret' = NoRet
                /\ With(APPROVED_COMMANDS, Key, APPROVED_COMMANDS')
                /\ APPROVED_COMMANDS'[Key] \in Datetimes
       /\ (StepRevoke /\ obs'.saved = outcome)
             => /\ ret' = Envelope(RevokedText(call'.command), FALSE)
                /\ Without(APPROVED_COMMANDS, call'.command,
                           APPROVED_COMMANDS')
       /\ (pc \in {"run", "wait"} /\ obs'.appended = outcome)
             => /\ ret' = Envelope(call'.output, ~call'.success)
                /\ obs'.spawned = (pc = "wait")
                /\ APPROVED_COMMANDS' = APPROVED_COMMANDS

C8_Inv ==
    (Executing /\ obs.approved0 /\ ~Consistent) => (~obs.reads /\ AtExecutor)

C8_FailuresInvisible == []C8_Inv /\ [][C8_Step]_vars

\* A call ran unprompted on an approval whose write had failed, and returned
\* success although its audit append failed
C8_RanAfterFailedWrite ==
    /\ Executing /\ Returned /\ obs.approved0 /\ ~obs.reads
    /\ APPROVED_COMMANDS[Key] \in Datetimes
    /\ ~Consistent
    /\ obs.child = "exit0" /\ obs.appended = "failed"
    /\ ret.isError = FALSE

\* C9: no step changes or removes a line of the audit log; an
\* execute_command call that got to subprocess.run calls
\* log_command_execution once, and when the append succeeds the log has
\* exactly one line more, for this command, whose success flag is the
\* negation of the returned isError; a denied or interrupted call, a revoke
\* and a list leave the log as it was.
C9_Inv ==
    /\ (Executing /\ Returned) =>
          /\ (obs.readFailed \/ call.response = <<"3">>)
                <=> obs.appended = "none"
          /\ obs.appended = "ok" =>
                /\ Len(auditLog) = obs.logLen0 + 1
                /\ auditLog[Len(auditLog)].command = call.command
                /\ auditLog[Len(auditLog)].arguments = call.args
                /\ auditLog[Len(auditLog)].success = ~ret.isError
          /\ obs.appended # "ok" => Len(auditLog) = obs.logLen0
    /\ ~(Executing /\ Returned) =>
          (obs.appended = "none" /\ Len(auditLog) = obs.logLen0)

C9_Step == IsPrefix(auditLog, auditLog')

C9_AuditLog == []C9_Inv /\ [][C9_Step]_vars

\* A failed execution was appended to a log that had a line
C9_Appended ==
    /\ Executing /\ Returned /\ obs.appended = "ok"
    /\ obs.logLen0 >= 1
    /\ ret.isError

\* C10 as stated: every envelope returned by execute_command has exactly one
\* content item of type text, and isError is false if and only if a child
\* was spawned and exited with code 0.
C10_AsStated ==
    (Executing /\ Returned)
       => /\ Len(ret.content) = 1
          /\ ret.content[1].type = "text"
          /\ (ret.isError = FALSE) <=> (obs.spawned /\ obs.child = "exit0")

\* A child exited with code 0 and the envelope has isError true
C10_ExitZeroIsError ==
    /\ Executing /\ Returned
    /\ obs.spawned /\ obs.child = "exit0"
    /\ ret.isError

\* The last line of the audit log
LastLine(log) == log[Len(log)]

\* C11: when the child of an execute_command call outlives the 300 seconds,
\* the call returns the timed-out text with isError true, the child has been
\* killed and waited for, log_command_execution is called once and, when its
\* append succeeds, adds one line with success false for this command; and
\* no call returns while its child is running.
C11_Step ==
    (pc = "wait" /\ call.duration > TIMEOUT)
       => /\ pc' = "done"
          /\ ret' = Envelope(TimeoutText, TRUE)
          /\ obs'.child = "killed"
          /\ obs'.appended \in {"ok", "failed"}
          /\ obs'.appended = "failed" => auditLog' = auditLog
          /\ obs'.appended = "ok"
                => /\ Len(auditLog') = Len(auditLog) + 1
                   /\ IsPrefix(auditLog, auditLog')
                   /\ LastLine(auditLog').success = FALSE
                   /\ LastLine(auditLog').command = call.command
                   /\ LastLine(auditLog').arguments = call.args

C11_Timeout == [](Returned => obs.child # "running") /\ [][C11_Step]_vars

\* A child that never exits was killed and the timeout was logged
C11_TimedOut ==
    /\ Executing /\ Returned /\ obs.child = "killed"
    /\ obs.appended = "ok"
    /\ LastLine(auditLog).result_summary.msg = TimeoutText.msg

\* The call got to subprocess.run and no child was started
StartFailed == Executing /\ Returned /\ obs.appended # "none" /\ ~obs.spawned

\* C12 as stated: a call whose child could not be started returns an
\* isError envelope of the execution-error kind, not of the unexpected-error
\* kind, and its audit line has success false.
C12_AsStated ==
    StartFailed
       => /\ ret.isError
          /\ ret.content[1].text.msg = "Execution Error: "
          /\ obs.appended = "ok" => LastLine(auditLog).success = FALSE

\* A start failure of the empty command string came back as unexpected error
C12_StartFailureUnexpected ==
    /\ StartFailed /\ call.command = << >>
    /\ ret = Envelope(Text("Unexpected Error: ", << "OSError" >>), TRUE)

\* C14 as stated: an execute_command call whose key is not in the store
\* has issued the prompt whenever it waits for, or has read, operator input.
C14_AsStated ==
    (Executing /\ ~obs.approved0 /\ (pc = "input" \/ obs.reads))
       => obs.prompted

\* A call without ctx waits for an answer and has issued no prompt
C14_WaitsUnprompted ==
    /\ Executing /\ pc = "input" /\ ~obs.approved0
    /\ ~obs.prompted /\ ~obs.reads

\* b holds the elements of a in another order
IsReordering(a, b) ==
    /\ Len(a) = Len(b)
    /\ a # b
    /\ \E f \in Permutations(DOMAIN a) : \A i \in DOMAIN a : b[i] = a[f[i]]

\* C16 as stated: the command_key of a call differs from the key of the same
\* command with the same arguments in any other order.
C16_AsStated ==
    Executing
       => \A r \in Requests :
             (r.command = call.command /\ IsReordering(call.args, r.args))
                => CommandKey(r.command, r.args) # call.command_key

\* A call whose arguments in another order give the same key
C16_SameKeyReordered ==
    /\ Executing
    /\ \E r \in Requests :
          /\ r.command = call.command
          /\ IsReordering(call.args, r.args)
          /\ CommandKey(r.command, r.args) = call.command_key

\* The (command, args) pair of the running call
Invocation == [command |-> call.command, args |-> call.args]

\* C20 as stated: a call gets to subprocess.run without reading operator
\* input only if the same command with the same argument vector was answered
\* 2 in this process and not revoked since, or its key was loaded at start.
C20_AsStated ==
    (Executing /\ AtExecutor /\ ~obs.reads)
       => \/ Invocation \in granted
          \/ APPROVED_COMMANDS[Key] \in PastTimes

\* A call ran unprompted on the approval of another argument vector
C20_RanOnOtherApproval ==
    /\ Executing /\ Returned /\ ~obs.reads /\ obs.child = "exit0"
    /\ Invocation \notin granted
    /\ \E g \in granted : g.command = call.command /\ g.args # call.args

\* The step is a list_approved_commands call
StepList == pc = "idle" /\ call'.op = "list"

\* The text list_approved_commands returns for a store
ListingText(store) ==
    IF store = EmptyMap
    THEN Text("No commands have been approved yet.", << >>)
    ELSE [msg |-> "",
          blocks |-> { <<k, isoformat(store[k])>> : k \in DOMAIN store }]

\* C15: with the store file edited from outside at any time, a call prompts
\* exactly when its key is not in the in-memory store and goes to
\* subprocess.run exactly when it is, revoke and list answer from the
\* in-memory store, the store changes only by the answer 2 and by revoke
\* (the file is not read again), and list changes neither the store nor the
\* store file nor the audit log.
C15_Step ==
    /\ StartsExecute
          => /\ (pc' = "input") <=>
                   (call'.command_key \notin DOMAIN APPROVED_COMMANDS)
             /\ (pc' = "run") <=>
                   (call'.command_key \in DOMAIN APPROVED_COMMANDS)
    /\ StepRevoke
          => ret' = IF call'.command \in DOMAIN APPROVED_COMMANDS
                    THEN Envelope(RevokedText(call'.command), FALSE)
                    ELSE Envelope(NotFoundText(call'.command), TRUE)
    /\ StepList
          => /\ ret'.content[1].text = ListingText(APPROVED_COMMANDS)
             /\ UNCHANGED <<APPROVED_COMMANDS, approvedFile, auditLog>>
    /\ APPROVED_COMMANDS' # APPROVED_COMMANDS
          => (StepRemember \/ StepRevoke)

C15_MemoryOnly == [][C15_Step]_vars

\* The file was replaced by one that approves a key the store does not
\* hold, and a call with that key waits for the operator
C15_PromptsDespiteFile ==
    /\ Executing /\ pc = "input"
    /\ approvedFile \in ExternalFiles
    /\ granted # {}
    /\ Key \in DOMAIN load_approved_commands(approvedFile)
    /\ Key \notin DOMAIN APPROVED_COMMANDS

\* C17: inside one execute_command call, nothing is saved, spawned, logged
\* or returned while the call waits for the decision; after the answer 2 the
\* key is in the store and save_approved_commands has returned before
\* subprocess.run is called; nothing is appended to the audit log and nothing
\* is returned while subprocess.run has not finished; and a call that got to
\* subprocess.run has called log_command_execution when it returns.
C17_Order ==
    Executing
       => /\ pc = "input"
                => /\ ~obs.spawned /\ obs.child = "none"
                   /\ obs.saved = "none" /\ ~obs.storeChanged
                   /\ obs.appended = "none" /\ ret = NoRet
          /\ (call.response = <<"2">> /\ (pc \in {"run", "wait"} \/ obs.spawned))
                => /\ Key \in DOMAIN APPROVED_COMMANDS
                   /\ obs.saved \in {"ok", "failed"}
                   /\ obs.saved = "ok" => Holds(approvedFile, APPROVED_COMMANDS)
          /\ pc \in {"run", "wait"}
                => /\ obs.appended = "none" /\ Len(auditLog) = obs.logLen0
                   /\ ret = NoRet
          /\ obs.appended # "none" => (Returned /\ obs.child # "running")
          /\ (Returned /\ ~obs.readFailed /\ call.response # <<"3">>)
                => obs.appended # "none"
          /\ ret # NoRet => Returned

\* A remembered call saved, ran its child, logged and returned
C17_AllSteps ==
    /\ Executing /\ Returned /\ call.response = <<"2">>
    /\ obs.saved = "ok" /\ obs.child = "exitN" /\ obs.appended = "ok"

\* C18: a line that is none of 1, 2, 3 after trimming leaves the call
\* waiting and changes nothing but the fact that input was read: the store,
\* the store file, the audit log, the call's locals and the return value are
\* as they were; the waiting call differs from one that has just begun only
\* in that fact, which every answer that ends the wait sets again; and the
\* wait ends only by a failed read or one of the three choices.
C18_Step ==
    /\ (pc = "input" /\ pc' = "input")
          => /\ UNCHANGED <<APPROVED_COMMANDS, approvedFile, auditLog, call,
                           ret, granted>>
             /\ obs' = [obs EXCEPT !.reads = TRUE]
    /\ (pc = "input" /\ pc' # "input") => obs'.reads

C18_Inv ==
    /\ pc = "input"
          => /\ call.response = << >> /\ ret = NoRet
             /\ [obs EXCEPT !.reads = FALSE]
                   = [FreshObs EXCEPT !.prompted = obs.prompted]
    /\ (Executing /\ pc # "input" /\ ~obs.approved0)
          => (obs.readFailed \/ call.response \in { <<"1">>, <<"2">>, <<"3">> })

C18_InvalidIgnored == []C18_Inv /\ [][C18_Step]_vars

\* A call that has read an invalid line is waiting again
C18_StillWaiting == Executing /\ pc = "input" /\ obs.reads

\* C19: every execute_command call that is at subprocess.run or waits for
\* its child returns, also when the child never exits; and a call that waits
\* for the operator returns when the operator gives a valid answer or the
\* read fails.
C19_Returns ==
    /\ (Executing /\ pc \in {"run", "wait"}) ~> Returned
    /\ (Executing /\ pc = "input") ~> Returned

\* A call waits for a child that never exits
C19_WaitsForEndless ==
    /\ Executing /\ pc = "wait" /\ call.duration = Forever
    /\ call.response = <<"1">>

\* Every dispatched call has returned
AllFinished == \A t \in TaskIds : tasks[t].pc \in {"none", "done"}

============================================================================
